---------------------------- MODULE Spec2Model ----------------------------
(***************************************************************************)
(* A model of app.py, the Smart City IoT dashboard script.                 *)
(*                                                                         *)
(* The script runs top to bottom: it cleans the column names and resolves  *)
(* the semantic fields (find_col), synthesises coordinates per city,       *)
(* reads the sidebar controls, filters the data frame, computes the        *)
(* current AQI and its alert, and runs the live simulation loop.  Each     *)
(* part is modelled by its own specification over the script's variables:  *)
(*                                                                         *)
(*   SpecCols    clean_columns and find_col            (lines 17-24, 83-98)*)
(*   SpecAqi     aqi_status                            (lines 37-47)       *)
(*   SpecGeo     the lat/lon enrichment                (lines 113-136)     *)
(*   SpecFilter  the sidebar, the filters, the KPI     (lines 143-241)     *)
(*   SpecSim     the live simulation                   (lines 175, 320-364)*)
(*                                                                         *)
(* Encodings.  A column name is a sequence of glyphs, so that cleaning is  *)
(* a computation on its characters.  A timestamp is a whole number of      *)
(* 1/UnitsPerSecond seconds since midnight of day 0; an AQI cell is a      *)
(* whole number of 1/AqiScale index points, so that cells with a fraction  *)
(* exist and int() truncates; a coordinate is a whole number of 1/10000    *)
(* degrees.  Missing cells are NaN (numbers), NaT (timestamps), NA (text). *)
(***************************************************************************)
EXTENDS Integers, Sequences, FiniteSets, TLC

VARIABLES
    pc,               \* the position of the script
    \* ---- schema resolution
    columns,          \* df.columns
    col,              \* the resolved fields: col["aqi"] is col_aqi, ...
    \* ---- aqi_status
    aqi, status_text, \* the arguments classified and the labels returned
    \* ---- geo enrichment
    city_series, lat_present, lon_present, lats, lons,
    \* ---- the bound fields the later stages read (None when unbound)
    col_city, weather_col, col_timestamp, col_aqi, col_pm25, col_temp,
    \* ---- sidebar, filters, KPI
    df, selected_city, selected_weather, date_range, aqi_slider,
    df_filtered, current_aqi, alert,
    \* ---- live simulation
    enabled,          \* the checkbox as the user last set it
    simulate_live,    \* the value the script read from the checkbox
    sim_df, i,
    now,              \* datetime.now()
    rng,              \* the state of the random generator
    sim_delay         \* the delay slider

colVars    == <<columns, col>>
aqiVars    == <<aqi, status_text>>
geoVars    == <<city_series, lat_present, lon_present, lats, lons>>
bindVars   == <<col_city, weather_col, col_timestamp, col_aqi, col_pm25, col_temp>>
filterVars == <<df, selected_city, selected_weather, date_range, aqi_slider,
                df_filtered, current_aqi, alert>>
simVars    == <<enabled, simulate_live, sim_df, i, now, rng, sim_delay>>
vars       == <<pc, colVars, aqiVars, geoVars, bindVars, filterVars, simVars>>

\* Python's None, and the missing-value markers of pandas.
\* None stands where the other values are strings or sequences, NoneNum
\* where they are numbers.
None    == "None"
NoneNum == -1
NA      == "<NA>"
NaN     == -1
NaT     == -1

\* The values a group of variables holds in a specification that does not
\* use it.
ColsIdle   == columns = <<>> /\ col = <<>>
AqiIdle    == aqi = <<>> /\ status_text = <<>>
GeoIdle    == city_series = <<>> /\ lat_present = FALSE /\ lon_present = FALSE
              /\ lats = <<>> /\ lons = <<>>
BindIdle   == col_city = None /\ weather_col = None /\ col_timestamp = None
              /\ col_aqi = None /\ col_pm25 = None /\ col_temp = None
FilterIdle == df = <<>> /\ selected_city = "All" /\ selected_weather = None
              /\ date_range = None /\ aqi_slider = <<0, 500>>
              /\ df_filtered = <<>> /\ current_aqi = NoneNum /\ alert = FALSE
SimIdle    == enabled = FALSE /\ simulate_live = FALSE /\ sim_df = <<>>
              /\ i = 0 /\ now = 0 /\ rng = 0 /\ sim_delay = 0

(***************************************************************************)
(* Sequences                                                               *)
(***************************************************************************)
RECURSIVE Flatten(_)
Flatten(ss) == IF ss = <<>> THEN <<>> ELSE Head(ss) \o Flatten(Tail(ss))

Range(s) == {s[k] : k \in 1..Len(s)}

\* The sequences over S of length at most n.
SeqsUpTo(S, n) == UNION {[1..k -> S] : k \in 0..n}

(***************************************************************************)
(* clean_columns and find_col                                              *)
(***************************************************************************)
\* A column name is the sequence of its glyphs.  "A^" stands for the
\* mis-encoded A with circumflex, "mu" for the micro sign, "^3" for the
\* superscript three, "deg" for the degree sign; every other glyph is itself.

\* The number of columns of data.csv.
MaxCols == 2

\* str.replace on one glyph, in the order of the four calls: the stray
\* glyph goes, micro becomes u, the superscript becomes 3, the space goes.
CleanGlyph(g) ==
    IF g = "A^" THEN <<>>
    ELSE IF g = "mu" THEN <<"u">>
    ELSE IF g = "^3" THEN <<"3">>
    ELSE IF g = " " THEN <<>>
    ELSE <<g>>

clean_name(name) == Flatten([k \in 1..Len(name) |-> CleanGlyph(name[k])])

clean_columns(cols) == [k \in 1..Len(cols) |-> clean_name(cols[k])]

\* str.replace(" ", "") on an alias literal.
NoSpace(name) == SelectSeq(name, LAMBDA g : g # " ")

Fields == {"timestamp", "city", "temp", "humidity", "aqi", "pm25", "pm10",
           "co", "no2", "wind", "weather"}

\* The alias lists of the find_col calls, glyph by glyph.
Aliases(f) ==
    CASE f = "timestamp" -> <<
             <<"T","i","m","e","s","t","a","m","p">>,
             <<"t","i","m","e","s","t","a","m","p">>,
             <<"T","i","m","e">>,
             <<"D","a","t","e","t","i","m","e">> >>
      [] f = "city" -> <<
             <<"C","i","t","y">>,
             <<"c","i","t","y">> >>
      [] f = "temp" -> <<
             <<"T","e","m","p","e","r","a","t","u","r","e","(","deg","C",")">>,
             NoSpace(<<"T","e","m","p","e","r","a","t","u","r","e","(","deg","C",")">>),
             <<"T","e","m","p","e","r","a","t","u","r","e">> >>
      [] f = "humidity" -> <<
             <<"H","u","m","i","d","i","t","y","(","%",")">>,
             <<"H","u","m","i","d","i","t","y">> >>
      [] f = "aqi" -> <<
             <<"A","Q","I">>,
             <<"A","q","i">>,
             <<"a","q","i">> >>
      [] f = "pm25" -> <<
             <<"P","M","2",".","5","(","u","g","/","m","3",")">>,
             NoSpace(<<"P","M","2",".","5","(","u","g","/","m","3",")">>),
             <<"P","M","2","5">>,
             <<"P","M","2","_","5">> >>
      [] f = "pm10" -> <<
             <<"P","M","1","0","(","u","g","/","m","3",")">>,
             <<"P","M","1","0">>,
             NoSpace(<<"P","M","1","0","(","u","g","/","m","3",")">>) >>
      [] f = "co" -> <<
             <<"C","O","(","p","p","m",")">>,
             NoSpace(<<"C","O","(","p","p","m",")">>),
             <<"C","O">> >>
      [] f = "no2" -> <<
             <<"N","O","2","(","p","p","m",")">>,
             <<"N","O","2">> >>
      [] f = "wind" -> <<
             <<"W","i","n","d","S","p","e","e","d","(","k","m","/","h",")">>,
             <<"W","i","n","d"," ","S","p","e","e","d","(","k","m","/","h",")">>,
             <<"W","i","n","d","S","p","e","e","d">>,
             <<"W","i","n","d">> >>
      [] f = "weather" -> <<
             <<"W","e","a","t","h","e","r">>,
             <<"w","e","a","t","h","e","r">> >>

\* find_col with the scan reversed: the last alias present wins.  C9 must
\* tell it from find_col.
RECURSIVE find_col_last(_, _)
find_col_last(possible_names, cols) ==
    IF possible_names = <<>> THEN None
    ELSE IF possible_names[Len(possible_names)] \in Range(cols)
         THEN possible_names[Len(possible_names)]
         ELSE find_col_last(SubSeq(possible_names, 1, Len(possible_names) - 1), cols)

\* for name in possible_names: if name in df.columns: return name
RECURSIVE find_col(_, _)
find_col(possible_names, cols) ==
    IF possible_names = <<>> THEN None
    ELSE IF Head(possible_names) \in Range(cols) THEN Head(possible_names)
    ELSE find_col(Tail(possible_names), cols)

\* The raw column names a data.csv is drawn from: clean and noisy spellings
\* of aliases of several fields (two of one field can be present at once),
\* and a name that is no alias.
RawNames ==
    { <<"A","Q","I">>,
      <<"A^","a","q","i">>,
      <<"A","q","i"," ">>,
      <<"C","i","t","y">>,
      <<" ","c","i","t","y">>,
      <<"T","i","m","e">>,
      <<"T","i","m","e","s","t","a","m","p">>,
      <<"P","M","2",".","5","(","mu","g","/","m","^3",")">>,
      <<"P","M","2","5">>,
      <<"W","i","n","d"," ","S","p","e","e","d","(","k","m","/","h",")">>,
      <<"W","i","n","d">>,
      <<"S","e","n","s","o","r"," ","I","d">> }

ColsInit ==
    /\ pc = "loaded"
    /\ columns \in SeqsUpTo(RawNames, MaxCols)
    /\ col = <<>>
    /\ AqiIdle /\ GeoIdle /\ BindIdle /\ FilterIdle /\ SimIdle

\* df.columns = clean_columns(df.columns)
CleanColumns ==
    /\ pc = "loaded"
    /\ columns' = clean_columns(columns)
    /\ pc' = "cleaned"
    /\ UNCHANGED <<col, aqiVars, geoVars, bindVars, filterVars, simVars>>

\* The find_col calls of lines 89-98 and 151; a second pass of the script
\* over the same columns resolves them again.
ResolveFields ==
    /\ pc \in {"cleaned", "resolved"}
    /\ col' = [f \in Fields |-> find_col(Aliases(f), columns)]
    /\ pc' = "resolved"
    /\ UNCHANGED <<columns, aqiVars, geoVars, bindVars, filterVars, simVars>>

ColsNext == CleanColumns \/ ResolveFields

SpecCols == ColsInit /\ [][ColsNext]_vars

(***************************************************************************)
(* C9  find_col binds the first alias present                              *)
(***************************************************************************)
\* The positions of the aliases of field f that are among the column names.
PresentAt(f, cols) == {k \in 1..Len(Aliases(f)) : \E c \in 1..Len(cols) : cols[c] = Aliases(f)[k]}

FirstPresent(f, cols) ==
    IF PresentAt(f, cols) = {} THEN None
    ELSE Aliases(f)[CHOOSE k \in PresentAt(f, cols) : \A m \in PresentAt(f, cols) : k <= m]

C9_FirstAliasWins ==
    pc = "resolved" => \A f \in Fields : col[f] = FirstPresent(f, columns)

C9_ResolvedAgain ==
    (pc = "resolved" /\ pc' = "resolved") => col' = col

\* C9: once the fields are resolved, every semantic field is bound to the
\* first name of its alias list, in list order, that is among the cleaned
\* column names, and to None when no alias is among them; resolving again
\* over the same columns leaves every binding as it was.
C9_FindColFirstAlias == [](C9_FirstAliasWins) /\ [][C9_ResolvedAgain]_vars

\* Two aliases of one field are present, the later alias in the earlier
\* column, and the field is bound; another field is unbound.
C9_Witness ==
    /\ pc = "resolved"
    /\ \E f \in Fields : \E a, b \in PresentAt(f, columns) :
          /\ a < b
          /\ \E ca, cb \in 1..Len(columns) :
                cb < ca /\ columns[ca] = Aliases(f)[a] /\ columns[cb] = Aliases(f)[b]
          /\ col[f] = Aliases(f)[a]
    /\ \E f \in Fields : col[f] = None

(***************************************************************************)
(* aqi_status                                                              *)
(***************************************************************************)
\* The largest AQI classified.
MaxAqi == 310

\* aqi_status with its first threshold exclusive.  C7 must tell it from
\* aqi_status.
aqi_status_strict(a) ==
    IF a < 50 THEN <<"Good", "#2ECC71">>
    ELSE IF a <= 100 THEN <<"Moderate", "#F1C40F">>
    ELSE IF a <= 200 THEN <<"Unhealthy", "#E67E22">>
    ELSE IF a <= 300 THEN <<"Very Unhealthy", "#E74C3C">>
    ELSE <<"Hazardous", "#8E44AD">>

\* returns (label, color)
aqi_status(a) ==
    IF a <= 50 THEN <<"Good", "#2ECC71">>
    ELSE IF a <= 100 THEN <<"Moderate", "#F1C40F">>
    ELSE IF a <= 200 THEN <<"Unhealthy", "#E67E22">>
    ELSE IF a <= 300 THEN <<"Very Unhealthy", "#E74C3C">>
    ELSE <<"Hazardous", "#8E44AD">>

AqiInit ==
    /\ pc = "input"
    /\ aqi \in (0..MaxAqi) \X (0..MaxAqi)
    /\ status_text = <<>>
    /\ ColsIdle /\ GeoIdle /\ BindIdle /\ FilterIdle /\ SimIdle

\* status_text, status_color = aqi_status(...), for each of the two arguments
Classify ==
    /\ pc = "input"
    /\ status_text' = <<aqi_status(aqi[1])[1], aqi_status(aqi[2])[1]>>
    /\ pc' = "classified"
    /\ UNCHANGED <<aqi, colVars, geoVars, bindVars, filterVars, simVars>>

AqiNext == Classify

SpecAqi == AqiInit /\ [][AqiNext]_vars

(***************************************************************************)
(* C7  the bands of aqi_status                                             *)
(***************************************************************************)
Labels == {"Good", "Moderate", "Unhealthy", "Very Unhealthy", "Hazardous"}

\* The severity rank of a label.
Rank(label) ==
    CASE label = "Good" -> 1
      [] label = "Moderate" -> 2
      [] label = "Unhealthy" -> 3
      [] label = "Very Unhealthy" -> 4
      [] label = "Hazardous" -> 5

\* Whether x lies in the band of the label.
InBand(x, label) ==
    CASE label = "Good" -> x <= 50
      [] label = "Moderate" -> 50 < x /\ x <= 100
      [] label = "Unhealthy" -> 100 < x /\ x <= 200
      [] label = "Very Unhealthy" -> 200 < x /\ x <= 300
      [] label = "Hazardous" -> x > 300

\* C7: every non-negative AQI is labelled with the one band it lies in, by
\* inclusive upper bounds 50, 100, 200, 300 and Hazardous above 300, and of
\* two AQIs the larger never has the smaller severity rank.
C7_AqiStatusBands ==
    pc = "classified" =>
        /\ \A k \in 1..2 :
              /\ status_text[k] \in Labels
              /\ \A l \in Labels : InBand(aqi[k], l) <=> l = status_text[k]
        /\ aqi[1] <= aqi[2] => Rank(status_text[1]) <= Rank(status_text[2])

\* A boundary value and its successor are classified: the boundary falls in
\* the lower band.
C7_Witness ==
    /\ pc = "classified"
    /\ aqi[1] \in {50, 100, 200, 300}
    /\ aqi[2] = aqi[1] + 1
    /\ Rank(status_text[2]) = Rank(status_text[1]) + 1

(***************************************************************************)
(* Geo enrichment                                                          *)
(***************************************************************************)
\* The number of rows of the city column.
MaxGeoRows == 2

\* A degree in the units coordinates are counted in.
Degree == 10000

\* random.uniform(-0.02, 0.02), in those units.
Jitter == 200

CityNames == {"Delhi", "Bangalore", "Mumbai", "Chennai", "Kolkata"}

\* city_coords[name] = (lat, lon)
city_coords(name) ==
    CASE name = "Delhi"     -> <<287041, 771025>>
      [] name = "Bangalore" -> <<129716, 775946>>
      [] name = "Mumbai"    -> <<190760, 728777>>
      [] name = "Chennai"   -> <<130827, 802707>>
      [] name = "Kolkata"   -> <<225726, 883639>>

\* The text of a city cell is the sequence of its words and its runs of
\* whitespace (" "); a missing cell is NACell.  astype(str) spells a missing
\* cell "nan".
NACell == <<NA>>

astype_str(cell) == IF cell = NACell THEN <<"nan">> ELSE cell

\* str.split(): the words, without the whitespace.
split(text) == SelectSeq(text, LAMBDA g : g # " ")

\* city_coords.get(c.split()[0], (0,0)), for a c that has a word
base(c) == IF split(c)[1] \in CityNames THEN city_coords(split(c)[1]) ELSE <<0, 0>>

\* The jitters drawn: the two ends of the range and its middle.
Jitters == {-Jitter, 0, Jitter}

\* The cells of the city column: known cities alone, followed by more words
\* and after leading whitespace, a known city as the second word, an unknown
\* city, a missing cell and a cell of whitespace only.
CityCells ==
    { <<"Delhi">>, <<"Mumbai", " ", "Suburban">>, <<" ", "Kolkata">>,
      <<"New", " ", "Delhi">>, <<"Pune">>, NACell, <<" ">> }

\* One row's (lat, lon) given its jitter: NaN for the (0,0) of an unknown city.
Coordinate(c, jitter) ==
    IF base(c) = <<0, 0>> THEN <<NaN, NaN>>
    ELSE <<base(c)[1] + jitter[1], base(c)[2] + jitter[2]>>

GeoInit ==
    /\ pc = "resolved"
    /\ city_series \in SeqsUpTo(CityCells, MaxGeoRows)
    /\ lat_present \in BOOLEAN
    /\ lon_present \in BOOLEAN
    /\ col_city \in {None, "City"}
    /\ lats = <<>> /\ lons = <<>>
    /\ weather_col = None /\ col_timestamp = None /\ col_aqi = None
    /\ col_pm25 = None /\ col_temp = None
    /\ ColsIdle /\ AqiIdle /\ FilterIdle /\ SimIdle

\* if "lat" not in df.columns and "lon" not in df.columns and col_city
GeoApplies == ~lat_present /\ ~lon_present /\ col_city # None

\* The loop of lines 125-134 and the two assignments after it.
EnrichRows ==
    /\ pc = "resolved"
    /\ GeoApplies
    /\ \A k \in 1..Len(city_series) : split(astype_str(city_series[k])) # <<>>
    /\ \E jit \in [1..Len(city_series) -> Jitters \X Jitters] :
          /\ lats' = [k \in 1..Len(city_series) |->
                         Coordinate(astype_str(city_series[k]), jit[k])[1]]
          /\ lons' = [k \in 1..Len(city_series) |->
                         Coordinate(astype_str(city_series[k]), jit[k])[2]]
    /\ lat_present' = TRUE /\ lon_present' = TRUE
    /\ pc' = "enriched"
    /\ UNCHANGED <<city_series, colVars, aqiVars, bindVars, filterVars, simVars>>

\* c.split()[0] of a cell with no word raises IndexError inside the loop:
\* the script ends there and df gets no lat and no lon.
EnrichRaises ==
    /\ pc = "resolved"
    /\ GeoApplies
    /\ \E k \in 1..Len(city_series) : split(astype_str(city_series[k])) = <<>>
    /\ pc' = "raised"
    /\ UNCHANGED <<geoVars, colVars, aqiVars, bindVars, filterVars, simVars>>

\* The condition of line 122 is false: df is left as it is.
EnrichSkipped ==
    /\ pc = "resolved"
    /\ ~GeoApplies
    /\ pc' = "skipped"
    /\ UNCHANGED <<geoVars, colVars, aqiVars, bindVars, filterVars, simVars>>

GeoNext == EnrichRows \/ EnrichRaises \/ EnrichSkipped

SpecGeo == GeoInit /\ [][GeoNext]_vars

(***************************************************************************)
(* C8  the coordinates geo enrichment gives                                *)
(***************************************************************************)
Within(x, ref, radius) == ref - radius <= x /\ x <= ref + radius

\* What the claim says of row k: the first word of its city decides.
C8_RowEnriched(k) ==
    LET words == split(astype_str(city_series[k]))
    IN  IF words # <<>> /\ words[1] \in CityNames
        THEN /\ lats[k] # NaN /\ lons[k] # NaN
             /\ Within(lats[k], city_coords(words[1])[1], (2 * Degree) \div 100)
             /\ Within(lons[k], city_coords(words[1])[2], (2 * Degree) \div 100)
        ELSE lats[k] = NaN /\ lons[k] = NaN

C8_RowsEnriched ==
    /\ Len(lats) = Len(city_series)
    /\ Len(lons) = Len(city_series)
    /\ \A k \in 1..Len(city_series) : C8_RowEnriched(k)

\* C8: when df has neither lat nor lon and the city field is bound, the
\* enrichment gives every record a (lat, lon): within 0.02 degrees of the
\* reference of the city its first word names, or both missing (never
\* zero) when that word names no known city; one pair per record.
C8_GeoEnrichment ==
    pc \in {"enriched", "raised"} => pc = "enriched" /\ C8_RowsEnriched

\* What the code does give: the same, in the runs the loop finishes.
C8_EnrichedWhenLoopEnds == pc = "enriched" => C8_RowsEnriched

(***************************************************************************)
(* The data frame, the sidebar and the filters                             *)
(***************************************************************************)
\* The number of rows of df.
MaxRows == 2

\* The last day the timestamps and the date picker reach; day 0 is the first.
MaxDay == 1

\* The units a second is counted in: timestamps have a sub-second part.
UnitsPerSecond == 5

\* The units an AQI point is counted in: AQI cells have a fraction.
AqiScale == 2

SecondsPerDay == 86400

\* pd.Timedelta(days=1) and pd.Timedelta(seconds=1)
Day    == SecondsPerDay * UnitsPerSecond
Second == UnitsPerSecond

\* pd.to_datetime(a date): midnight of the day.  Timestamp.date(): the day.
to_datetime(d) == d * Day
date(ts) == ts \div Day

\* int() of a non-negative AQI cell.
int(v) == v \div AqiScale

\* A whole AQI, and one with a fraction, as a cell.
Aqi(n) == n * AqiScale
AqiAndFraction(n) == n * AqiScale + 1

\* The rows data.csv is drawn from.  Between them they hold, for every
\* field, a missing cell; timestamps at the first instant of a day, at the
\* last whole second of a day and within that second; AQIs at the bounds of
\* the bands, with and without a fraction.
RowPool ==
    { [city |-> "Delhi", weather |-> "Sunny", ts |-> to_datetime(0),
       aqi |-> Aqi(50)],
      [city |-> "Pune",  weather |-> "Rain",  ts |-> to_datetime(1) - Second,
       aqi |-> Aqi(200)],
      [city |-> "Delhi", weather |-> "Rain",  ts |-> to_datetime(1) - 1,
       aqi |-> AqiAndFraction(200)],
      [city |-> "Pune",  weather |-> NA,      ts |-> to_datetime(MaxDay),
       aqi |-> Aqi(201)],
      [city |-> NA,      weather |-> "Sunny", ts |-> NaT,
       aqi |-> Aqi(301)],
      [city |-> "Delhi", weather |-> "Sunny", ts |-> to_datetime(MaxDay + 1) - 1,
       aqi |-> NaN],
      [city |-> "Pune",  weather |-> "Sunny", ts |-> to_datetime(0) + Second,
       aqi |-> Aqi(51)],
      [city |-> NA,      weather |-> NA,      ts |-> NaT,
       aqi |-> NaN] }

\* The columns of a series, in row order.
Column(d, field) == [k \in 1..Len(d) |-> d[k][field]]

\* Series.dropna()
dropna(s, missing) == SelectSeq(s, LAMBDA v : v # missing)

\* Series.unique(): the values in the order of their first appearance.
RECURSIVE unique(_)
unique(s) ==
    IF s = <<>> THEN <<>>
    ELSE LET rest == unique(SubSeq(s, 1, Len(s) - 1))
         IN  IF s[Len(s)] \in Range(rest) THEN rest ELSE Append(rest, s[Len(s)])

Min(S) == CHOOSE x \in S : \A y \in S : x <= y
Max(S) == CHOOSE x \in S : \A y \in S : x >= y

\* The sub-lists of a list, each in the order of the list.
RECURSIVE SubLists(_)
SubLists(s) ==
    IF s = <<>> THEN {<<>>}
    ELSE LET rest == SubLists(Tail(s))
         IN  rest \cup {<<Head(s)>> \o t : t \in rest}

\* cities, weathers: the options of the city and weather widgets.
cities   == Range(dropna(Column(df, "city"), NA))
weathers == unique(dropna(Column(df, "weather"), NA))

Timestamps == Range(dropna(Column(df, "ts"), NaT))
AqiValues  == Range(dropna(Column(df, "aqi"), NaN))

\* The default of the date picker and of the AQI slider.
DefaultDates  == <<date(Min(Timestamps)), date(Max(Timestamps))>>
DefaultSlider == <<int(Min(AqiValues)), int(Max(AqiValues))>>

\* The ranges a user sets the slider to, besides its default and its whole.
SliderRanges == {<<0, 500>>, <<51, 200>>}

FilterInit ==
    /\ pc = "loaded"
    /\ col_city \in {None, "City"}
    /\ weather_col \in {None, "Weather"}
    /\ col_timestamp \in {None, "Timestamp"}
    /\ col_aqi \in {None, "AQI"}
    /\ col_pm25 = None /\ col_temp = None
    /\ \E rows \in SeqsUpTo(RowPool, MaxRows) :
          df = [k \in 1..Len(rows) |->
                  [idx |-> k,
                   city |-> IF col_city # None THEN rows[k].city ELSE NA,
                   weather |-> IF weather_col # None THEN rows[k].weather ELSE NA,
                   ts |-> IF col_timestamp # None THEN rows[k].ts ELSE NaT,
                   aqi |-> IF col_aqi # None THEN rows[k].aqi ELSE NaN]]
    /\ selected_city = "All" /\ selected_weather = None
    /\ date_range = None /\ aqi_slider = <<0, 500>>
    /\ df_filtered = <<>> /\ current_aqi = NoneNum /\ alert = FALSE
    /\ aqi = <<>> /\ status_text = "N/A"
    /\ ColsIdle /\ GeoIdle /\ SimIdle

\* min_date.date() of a column with no timestamp, and int() of the minimum
\* of a column with no AQI, raise.
SidebarCanRun ==
    /\ col_timestamp # None => Timestamps # {}
    /\ col_aqi # None => AqiValues # {}

\* Lines 143-172: the widgets return what the user set them to.
Sidebar ==
    /\ pc = "loaded"
    /\ SidebarCanRun
    /\ IF col_city # None
       THEN selected_city' \in {"All"} \cup cities
       ELSE selected_city' = "All"
    /\ IF weather_col # None
       THEN selected_weather' \in SubLists(weathers)
       ELSE selected_weather' = None
    /\ IF col_timestamp # None
       THEN date_range' \in {DefaultDates}
                \cup {r \in (0..MaxDay) \X (0..MaxDay) : r[1] <= r[2]}
       ELSE date_range' = None
    /\ IF col_aqi # None
       THEN aqi_slider' \in {DefaultSlider} \cup SliderRanges
       ELSE aqi_slider' = <<0, 500>>
    /\ pc' = "controls"
    /\ UNCHANGED <<df, df_filtered, current_aqi, alert,
                   colVars, aqiVars, geoVars, bindVars, simVars>>

SidebarRaises ==
    /\ pc = "loaded"
    /\ ~SidebarCanRun
    /\ pc' = "raised"
    /\ UNCHANGED <<filterVars, colVars, aqiVars, geoVars, bindVars, simVars>>

\* if selected_city != "All" and col_city: ...
FilterCity(d) ==
    IF selected_city # "All" /\ col_city # None
    THEN SelectSeq(d, LAMBDA r : r.city = selected_city)
    ELSE d

\* FilterWeather without its guards against an empty selection.  C2 must
\* tell it from FilterWeather.
FilterWeather_EmptyFilters(d) ==
    IF selected_weather # None /\ weather_col # None
    THEN SelectSeq(d, LAMBDA r : r.weather \in Range(selected_weather))
    ELSE d

\* if selected_weather and weather_col: if len(selected_weather) > 0: ...
\* (None and the empty list are both false)
FilterWeather(d) ==
    IF selected_weather # None /\ selected_weather # <<>> /\ weather_col # None
    THEN IF Len(selected_weather) > 0
         THEN SelectSeq(d, LAMBDA r : r.weather \in Range(selected_weather))
         ELSE d
    ELSE d

\* if date_range and col_timestamp: ...  (a comparison with NaT is false)
FilterDate(d) ==
    IF date_range # None /\ col_timestamp # None
    THEN LET start_dt == to_datetime(date_range[1])
             end_dt   == to_datetime(date_range[2]) + Day - Second
         IN  SelectSeq(d, LAMBDA r : r.ts # NaT /\ r.ts >= start_dt /\ r.ts <= end_dt)
    ELSE d

\* FilterAqi with the mask applied to df, not to the view so far.  C1 must
\* tell it from FilterAqi.
FilterAqi_OnDf(d) ==
    IF col_aqi # None
    THEN SelectSeq(df, LAMBDA r : /\ r.aqi # NaN
                                  /\ r.aqi >= aqi_slider[1] * AqiScale
                                  /\ r.aqi <= aqi_slider[2] * AqiScale)
    ELSE d

\* if col_aqi: ...  (a comparison with NaN is false)
FilterAqi(d) ==
    IF col_aqi # None
    THEN SelectSeq(d, LAMBDA r : /\ r.aqi # NaN
                                 /\ r.aqi >= aqi_slider[1] * AqiScale
                                 /\ r.aqi <= aqi_slider[2] * AqiScale)
    ELSE d

\* Lines 186-202: df_filtered = df.copy(), then the four filters in turn.
ApplyFilters(d) == FilterAqi(FilterDate(FilterWeather(FilterCity(d))))

Filter ==
    /\ pc = "controls"
    /\ df_filtered' = ApplyFilters(df)
    /\ pc' = "filtered"
    /\ UNCHANGED <<df, selected_city, selected_weather, date_range, aqi_slider,
                   current_aqi, alert, colVars, aqiVars, geoVars, bindVars, simVars>>

\* int(df_filtered[col_aqi].dropna().iloc[-1]); None when that raises: the
\* field is unbound, or no value is left.
CurrentAqi(view) ==
    IF col_aqi = None THEN NoneNum
    ELSE LET values == dropna(Column(view, "aqi"), NaN)
         IN  IF values = <<>> THEN NoneNum ELSE int(values[Len(values)])

\* Alert with 200 itself raising it.  C10 must tell it from Alert.
Alert_From200(current) == current # NoneNum /\ current >= 200

\* current_aqi is not None and current_aqi > 200
Alert(current) == current # NoneNum /\ current > 200

\* Lines 211-241: the current AQI, its status and the alert.
Kpi ==
    /\ pc = "filtered"
    /\ current_aqi' = CurrentAqi(df_filtered)
    /\ status_text' = IF CurrentAqi(df_filtered) # NoneNum
                       THEN aqi_status(CurrentAqi(df_filtered))[1]
                       ELSE "N/A"
    /\ alert' = Alert(CurrentAqi(df_filtered))
    /\ pc' = "kpi"
    /\ UNCHANGED <<df, selected_city, selected_weather, date_range, aqi_slider,
                   df_filtered, aqi, colVars, geoVars, bindVars, simVars>>

\* The script runs again with the widgets as they are (st.experimental_rerun,
\* line 181) and filters the cached df again.
Rerun ==
    /\ pc = "kpi"
    /\ df_filtered' = ApplyFilters(df)
    /\ pc' = "filtered"
    /\ UNCHANGED <<df, selected_city, selected_weather, date_range, aqi_slider,
                   current_aqi, alert, colVars, aqiVars, geoVars, bindVars, simVars>>

FilterNext == Sidebar \/ SidebarRaises \/ Filter \/ Kpi \/ Rerun

SpecFilter == FilterInit /\ [][FilterNext]_vars

(***************************************************************************)
(* C1  the filtered view is the sub-frame of the rows that pass            *)
(***************************************************************************)
\* The four predicates, each with the condition under which its filter runs.
CityRuns    == selected_city # "All" /\ col_city # None
WeatherRuns == weather_col # None /\ selected_weather # None /\ Len(selected_weather) > 0
DateRuns    == col_timestamp # None /\ date_range # None
AqiRuns     == col_aqi # None

CityOk(r)    == r.city = selected_city
WeatherOk(r) == \E k \in 1..Len(selected_weather) : selected_weather[k] = r.weather
DateOk(r)    == /\ r.ts # NaT
                /\ to_datetime(date_range[1]) <= r.ts
                /\ r.ts <= to_datetime(date_range[2] + 1) - Second
AqiOk(r)     == /\ r.aqi # NaN
                /\ Aqi(aqi_slider[1]) <= r.aqi
                /\ r.aqi <= Aqi(aqi_slider[2])

\* The row passes every filter that runs.
Passes(r) ==
    /\ CityRuns => CityOk(r)
    /\ WeatherRuns => WeatherOk(r)
    /\ DateRuns => DateOk(r)
    /\ AqiRuns => AqiOk(r)

Filtered == pc \in {"filtered", "kpi"}

\* The view holds rows of df, each once and in the order of df, and they
\* are the rows that pass.
C1_ViewIsSubFrame ==
    Filtered =>
        /\ \A k \in 1..Len(df_filtered) :
              /\ df_filtered[k].idx \in 1..Len(df)
              /\ df_filtered[k] = df[df_filtered[k].idx]
        /\ \A k \in 1..(Len(df_filtered) - 1) :
              df_filtered[k].idx < df_filtered[k + 1].idx
        /\ {df_filtered[k].idx : k \in 1..Len(df_filtered)}
              = {k \in 1..Len(df) : Passes(df[k])}

\* No step of the script changes df; filtering again under the same
\* criteria gives the same view.
C1_SameAgain ==
    /\ df' = df
    /\ (Filtered /\ pc' = "filtered") => df_filtered' = df_filtered

\* C1: the filtered view is a subsequence of df: it holds exactly the rows
\* that satisfy every predicate whose filter runs, in the order of df; df is
\* left unchanged; the same criteria applied again give the same view.
C1_FilterIsPureSubsequence == [](C1_ViewIsSubFrame) /\ [][C1_SameAgain]_vars

\* Two filters run, the second row of df is kept and the first is dropped,
\* and the script has filtered a second time.
C1_Witness ==
    /\ pc = "filtered"
    /\ current_aqi # NoneNum
    /\ CityRuns /\ AqiRuns
    /\ Len(df) = 2
    /\ Len(df_filtered) = 1
    /\ df_filtered[1].idx = 2

(***************************************************************************)
(* C2  the weather filter: empty and covering selections                   *)
(***************************************************************************)
\* The row passes the filters other than the weather filter.
PassesButWeather(r) ==
    /\ CityRuns => CityOk(r)
    /\ DateRuns => DateOk(r)
    /\ AqiRuns => AqiOk(r)

\* The rows of df in the view, by their labels.
Kept == {df_filtered[k].idx : k \in 1..Len(df_filtered)}

\* The selection holds every distinct weather value of df.
CoversWeathers == Range(weathers) \subseteq Range(selected_weather)

NoRestriction ==
    /\ selected_city = "All"
    /\ weather_col # None => selected_weather = weathers
    /\ col_timestamp # None => date_range = DefaultDates
    /\ aqi_slider = <<0, 500>>

\* C3: under an AQI range of [0, 500] and no other restriction the view is
\* the whole of df, in the order of df, whatever cells of df are missing.
C3_NoRestrictionKeepsAll ==
    (Filtered /\ NoRestriction) => df_filtered = df

(***************************************************************************)
(* C4  the date filter                                                     *)
(***************************************************************************)
\* The row passes the filters other than the date filter.
PassesButDate(r) ==
    /\ CityRuns => CityOk(r)
    /\ WeatherRuns => WeatherOk(r)
    /\ AqiRuns => AqiOk(r)

\* The timestamp lies within the days from the start day to the end day.
WithinDays(ts, range) ==
    ts # NaT /\ to_datetime(range[1]) <= ts /\ ts < to_datetime(range[2] + 1)

\* C4: with the timestamp field bound, the date predicate keeps a row
\* exactly when its timestamp lies from the first instant of the start day
\* to the last instant of the end day.
C4_DateRangeWholeDays ==
    (Filtered /\ col_timestamp # None) =>
        \A k \in 1..Len(df) :
            PassesButDate(df[k]) => (k \in Kept <=> WithinDays(df[k].ts, date_range))

(***************************************************************************)
(* C10  the current AQI and the alert                                      *)
(***************************************************************************)
\* The AQI cells of the view that are not missing, in row order.
ViewAqis == dropna(Column(df_filtered, "aqi"), NaN)

\* The alert goes with the current AQI and with its label.
C10_AlertFollowsCurrent ==
    /\ alert <=> (current_aqi # NoneNum /\ current_aqi > 200)
    /\ current_aqi # NoneNum =>
          /\ status_text = aqi_status(current_aqi)[1]
          /\ alert <=> status_text \in {"Very Unhealthy", "Hazardous"}
          /\ ~alert <=> status_text \in {"Good", "Moderate", "Unhealthy"}

\* C10 as claimed: the current AQI is the last AQI value of the view that is
\* not missing, absent when the field is unbound or no value is left; the
\* alert is raised exactly when it exists and exceeds 200, which is for
\* Very Unhealthy and Hazardous and for no other label.
C10_CurrentIsLastValue ==
    pc = "kpi" =>
        /\ (col_aqi = None \/ ViewAqis = <<>>) => current_aqi = NoneNum
        /\ (col_aqi # None /\ ViewAqis # <<>>) =>
              /\ current_aqi # NoneNum
              /\ Aqi(current_aqi) = ViewAqis[Len(ViewAqis)]
        /\ C10_AlertFollowsCurrent

\* C10 as the code has it: the current AQI is the whole part of that last
\* value.
C10_CurrentIsLastValueTruncated ==
    pc = "kpi" =>
        /\ (col_aqi = None \/ ViewAqis = <<>>) => current_aqi = NoneNum
        /\ (col_aqi # None /\ ViewAqis # <<>>) =>
              /\ current_aqi # NoneNum
              /\ Aqi(current_aqi) <= ViewAqis[Len(ViewAqis)]
              /\ ViewAqis[Len(ViewAqis)] < Aqi(current_aqi + 1)
        /\ C10_AlertFollowsCurrent

\* The last value of a view of two rows is 200 and a fraction: the current
\* AQI is 200 and no alert is raised.
C10_Witness ==
    /\ pc = "kpi"
    /\ Len(ViewAqis) = 2
    /\ ViewAqis[2] = AqiAndFraction(200)
    /\ current_aqi = 200
    /\ ~alert

(***************************************************************************)
(* The live simulation                                                     *)
(***************************************************************************)
\* for i in range(30)
NumTicks == 30

\* seed = df_filtered.tail(10)
SeedRows == 10

\* The states of the random generator, seeded anew at the start of a run.
RngStates == 3

\* The generator's next state, and its draw from lo..hi (both ends drawn).
NextRng(r) == (r + 1) % RngStates
randint(lo, hi, r) == lo + (r * (hi - lo)) \div (RngStates - 1)

\* Temperatures are counted in hundredths of a degree: round(..., 2).
Hundredths == 100

\* The rows of the filtered view the simulation is seeded from, with the
\* fields it reads.
SimRowPool ==
    { [ts |-> to_datetime(0), aqi |-> Aqi(50), pm25 |-> 12, temp |-> 21 * Hundredths],
      [ts |-> to_datetime(MaxDay + 1) - 1, aqi |-> AqiAndFraction(200),
       pm25 |-> NaN, temp |-> NaN] }

\* DataFrame.tail(n)
tail(d, n) == IF Len(d) <= n THEN d ELSE SubSeq(d, Len(d) - n + 1, Len(d))

\* The seed loop of lines 326-337: one record per row of the tail, when the
\* timestamp and the AQI are bound; the buffer stays empty otherwise.
Seed(view) ==
    IF col_timestamp # None /\ col_aqi # None
    THEN [k \in 1..Len(tail(view, SeedRows)) |->
            [time |-> tail(view, SeedRows)[k].ts,
             AQI |-> tail(view, SeedRows)[k].aqi,
             PM25 |-> IF col_pm25 # None THEN tail(view, SeedRows)[k].pm25 ELSE NaN,
             Temperature |-> IF col_temp # None THEN tail(view, SeedRows)[k].temp ELSE NaN]]
    ELSE <<>>

\* The record of lines 349-352, drawn with the generator in state r at time t.
NewRecord(t, r) ==
    [time |-> t,
     AQI |-> Aqi(randint(40, 320, r)),
     PM25 |-> IF col_pm25 # None THEN randint(10, 200, NextRng(r)) ELSE NaN,
     Temperature |->
        IF col_temp # None
        THEN randint(18 * Hundredths, 34 * Hundredths,
                     IF col_pm25 # None THEN NextRng(NextRng(r)) ELSE NextRng(r))
        ELSE NaN]

\* The generator after the draws of one tick: one for the AQI, one more for
\* each of PM2.5 and temperature that is bound.
RngAfterTick(r) ==
    LET r1 == NextRng(r)
        r2 == IF col_pm25 # None THEN NextRng(r1) ELSE r1
    IN  IF col_temp # None THEN NextRng(r2) ELSE r2

SimInit ==
    /\ pc = "sidebar"
    /\ enabled \in BOOLEAN
    /\ simulate_live = FALSE
    /\ sim_df = <<>>
    /\ i = 0
    /\ now \in {to_datetime(0), to_datetime(MaxDay + 1)}
    /\ rng \in 0..(RngStates - 1)
    /\ sim_delay \in {1, 2 * UnitsPerSecond}
    /\ col_timestamp \in {None, "Timestamp"}
    /\ col_aqi \in {None, "AQI"}
    /\ col_pm25 \in {None, "PM2.5"}
    /\ col_temp \in {None, "Temperature"}
    /\ col_city = None /\ weather_col = None
    /\ \E rows \in SeqsUpTo(SimRowPool, MaxRows) :
          df_filtered = [k \in 1..Len(rows) |->
                           [idx |-> k, ts |-> rows[k].ts, aqi |-> rows[k].aqi,
                            pm25 |-> rows[k].pm25, temp |-> rows[k].temp]]
    /\ df = <<>> /\ selected_city = "All" /\ selected_weather = None
    /\ date_range = None /\ aqi_slider = <<0, 500>>
    /\ current_aqi = NoneNum /\ alert = FALSE
    /\ ColsIdle /\ AqiIdle /\ GeoIdle

\* The user sets or clears the checkbox; that can happen at any time.
Toggle ==
    /\ enabled' = ~enabled
    /\ UNCHANGED <<pc, simulate_live, sim_df, i, now, rng, sim_delay,
                   colVars, aqiVars, geoVars, bindVars, filterVars>>

\* simulate_live = st.sidebar.checkbox(...): the script reads the checkbox.
ReadCheckbox ==
    /\ pc = "sidebar"
    /\ simulate_live' = enabled
    /\ pc' = "rendered"
    /\ UNCHANGED <<enabled, sim_df, i, now, rng, sim_delay,
                   colVars, aqiVars, geoVars, bindVars, filterVars>>

\* if simulate_live: the buffer is made and seeded (lines 320-345).
StartSimulation ==
    /\ pc = "rendered"
    /\ simulate_live
    /\ sim_df' = Seed(df_filtered)
    /\ i' = 0
    /\ pc' = "streaming"
    /\ UNCHANGED <<enabled, simulate_live, now, rng, sim_delay,
                   colVars, aqiVars, geoVars, bindVars, filterVars>>

\* simulate_live is false: the script goes on to its footer.
NoSimulation ==
    /\ pc = "rendered"
    /\ ~simulate_live
    /\ pc' = "done"
    /\ UNCHANGED <<simVars, colVars, aqiVars, geoVars, bindVars, filterVars>>

\* Tick with one iteration more.  C6 must tell it from Tick.
Tick_OneMore ==
    /\ pc = "streaming"
    /\ i <= NumTicks
    /\ sim_df' = Append(sim_df, NewRecord(now, rng))
    /\ rng' = RngAfterTick(rng)
    /\ now' = now + sim_delay
    /\ i' = i + 1
    /\ UNCHANGED <<pc, enabled, simulate_live, sim_delay,
                   colVars, aqiVars, geoVars, bindVars, filterVars>>

\* One iteration of the loop of lines 348-362: a record is drawn and
\* appended, the chart is redrawn, and the script sleeps for sim_delay.
Tick ==
    /\ pc = "streaming"
    /\ i < NumTicks
    /\ sim_df' = Append(sim_df, NewRecord(now, rng))
    /\ rng' = RngAfterTick(rng)
    /\ now' = now + sim_delay
    /\ i' = i + 1
    /\ UNCHANGED <<pc, enabled, simulate_live, sim_delay,
                   colVars, aqiVars, geoVars, bindVars, filterVars>>

\* The loop has run its iterations: st.success("Simulation finished.")
Finish ==
    /\ pc = "streaming"
    /\ i = NumTicks
    /\ pc' = "finished"
    /\ UNCHANGED <<simVars, colVars, aqiVars, geoVars, bindVars, filterVars>>

SimNext == Toggle \/ ReadCheckbox \/ StartSimulation \/ NoSimulation \/ Tick \/ Finish

SpecSim == SimInit /\ [][SimNext]_vars

(***************************************************************************)
(* C5  the checkbox during a run                                           *)
(***************************************************************************)
\* C5: during a run the checkbox is checked at every tick boundary: once
\* the user has cleared it, the loop appends no further record.
C5_NoAppendOnceCleared ==
    [][(pc = "streaming" /\ ~enabled) => sim_df' = sim_df]_vars

(***************************************************************************)
(* C6  the buffer is append-only and the run is finite                     *)
(***************************************************************************)
\* The number of records the buffer is seeded with.
SeedLen ==
    IF col_timestamp # None /\ col_aqi # None
    THEN IF Len(df_filtered) <= SeedRows THEN Len(df_filtered) ELSE SeedRows
    ELSE 0

\* The buffer holds its seed and one record per tick made; the generated
\* records are in the order of their timestamps; a finished run has made
\* every tick.
C6_OneRecordPerTick ==
    pc \in {"streaming", "finished"} =>
        /\ i <= NumTicks
        /\ Len(sim_df) = SeedLen + i
        /\ \A j, k \in (SeedLen + 1)..Len(sim_df) :
              j <= k => sim_df[j].time <= sim_df[k].time
        /\ pc = "finished" =>
              /\ i = NumTicks
              /\ df_filtered = <<>> => Len(sim_df) = NumTicks

\* A step that changes the buffer of a run appends one record to it, and
\* no step changes the buffer of a finished run.
C6_AppendOnly ==
    /\ (pc = "streaming" /\ sim_df' # sim_df) =>
          /\ Len(sim_df') = Len(sim_df) + 1
          /\ SubSeq(sim_df', 1, Len(sim_df)) = sim_df
    /\ pc = "finished" => (pc' = "finished" /\ sim_df' = sim_df)

\* C6: each tick appends exactly one generated record after the records the
\* buffer holds and changes none of them; a run over a buffer seeded from an
\* empty view ends with exactly as many records as ticks, their timestamps
\* non-decreasing in buffer order; a finished run's buffer never changes.
C6_AppendOnlyFiniteRun == [](C6_OneRecordPerTick) /\ [][C6_AppendOnly]_vars

\* A run over an empty view has finished, with one record per tick.
C6_Witness ==
    /\ pc = "finished"
    /\ df_filtered = <<>>
    /\ Len(sim_df) = NumTicks
    /\ sim_df[1].time < sim_df[NumTicks].time

=============================================================================
